---- MODULE Spec2Model ----
(***************************************************************************)
(* Model of the multi-server MCP chat client of src/nomollm/client.py:     *)
(* main, MCPClient.connect_to_server, MCPClient.process_query,             *)
(* MCPClient.chat_loop and MCPClient.cleanup, with format_available_tools  *)
(* of src/nomollm/utils.py.  The collaborators (tool-server processes, the *)
(* LLM API, stdin/stdout) are the environment: their answers are chosen    *)
(* nondeterministically and every interaction with them is appended to     *)
(* log, in the order the single cooperative thread issues it.              *)
(* Text (paths, typed input, LLM text) is a sequence of characters, so     *)
(* that endswith, strip and lower are computed rather than assumed.        *)
(***************************************************************************)
EXTENDS Integers, Sequences, FiniteSets, TLC

(* ------------------------------ bounds -------------------------------- *)

\* most server paths on the command line
MaxServers == 2

\* most lines read from stdin by chat_loop
MaxInputs == 3

\* most function calls in one LLM response
MaxCalls == 2

(* --------------------------- text helpers ----------------------------- *)

\* str.endswith
EndsWith(s, suffix) ==
    /\ Len(s) >= Len(suffix)
    /\ SubSeq(s, Len(s) - Len(suffix) + 1, Len(s)) = suffix

\* one character of str.lower
LowerChar(c) ==
    CASE c = "Q" -> "q"
      [] c = "U" -> "u"
      [] c = "I" -> "i"
      [] c = "T" -> "t"
      [] c = "N" -> "n"
      [] c = "E" -> "e"
      [] c = "W" -> "w"
      [] c = "H" -> "h"
      [] OTHER -> c

\* str.lower
Lower(s) == [k \in 1..Len(s) |-> LowerChar(s[k])]

RECURSIVE LStrip(_)
\* leading whitespace removed
LStrip(s) ==
    IF s # <<>> /\ Head(s) = " " THEN LStrip(Tail(s)) ELSE s

RECURSIVE RStrip(_)
\* trailing whitespace removed
RStrip(s) ==
    IF s # <<>> /\ s[Len(s)] = " " THEN RStrip(SubSeq(s, 1, Len(s) - 1)) ELSE s

\* str.strip
Strip(s) == RStrip(LStrip(s))

\* the sequence s in reverse order
Reverse(s) == [k \in 1..Len(s) |-> s[Len(s) + 1 - k]]

\* the elements of a sequence
Range(s) == {s[k] : k \in 1..Len(s)}

\* the positions of log whose record satisfies Test
Positions(s, Test(_)) == {k \in 1..Len(s) : Test(s[k])}

(* ------------------------- environment values ------------------------- *)

\* sys.argv[0]
Prog == <<"c", "l", "i", "e", "n", "t", ".", "p", "y">>

\* server script paths the command line may carry
Paths ==
    { <<"a", ".", "p", "y">>,
      <<"b", ".", "j", "s">>,
      <<"c", ".", "t", "x", "t">> }

\* tool descriptors a server may advertise (mcp Tool: name, description, inputSchema)
AddTool == [name |-> "add", description |-> "Adds a and b.", inputSchema |-> "a:int,b:int"]

SearchTool == [name |-> "search", description |-> "Searches.", inputSchema |-> "q:str"]

\* the tool list the server script at path answers list_tools with
ServerTools(path) ==
    IF path = <<"a", ".", "p", "y">> THEN <<AddTool>> ELSE <<SearchTool, AddTool>>

\* lines the user may type
Inputs ==
    { <<" ", "Q", "u", "i", "t">>,
      <<"N", "e", "w", " ">>,
      <<" ", "H", "i">>,
      <<>> }

\* texts the LLM may answer with
LLMTexts == { <<>>, <<"5">> }

\* function calls the LLM may request ("mul" is advertised by no server)
FunctionCalls ==
    { [name |-> "add", args |-> "a=2,b=3"],
      [name |-> "mul", args |-> "a=2,b=3"] }

\* nonempty lists of at most MaxCalls function calls
FunctionCallLists == UNION { [1..n -> FunctionCalls] : n \in 1..MaxCalls }

\* Python's None
None == [tag |-> "None"]

\* a Python list object holding items
List(items) == [tag |-> "list", items |-> items]

\* truth value of a Python object that is None or a list
Truthy(v) == v.tag = "list" /\ v.items # <<>>

(* ------------------------------- state -------------------------------- *)

VARIABLES
    pc,                 \* position of the single thread of control
    argv,               \* sys.argv
    i,                  \* loop index of main's connect loop
    sessions,           \* MCPClient.sessions
    exit_stack,         \* MCPClient.exit_stack, in order of acquisition
    initialized,        \* sessions whose initialize() has returned
    available_tools,    \* name -> session dictionary of connect_to_server
    query,              \* chat_loop's query
    contents_history,   \* chat_loop's contents_history
    contents,           \* process_query's contents
    function_declarations, \* process_query's flattened available_tools
    response,           \* process_query's first LLM response
    answer,             \* chat_loop's response, the text printed
    error,              \* exception propagating out of main, or "none"
    exit_status,        \* process exit status, -1 while running
    log                 \* interactions with the collaborators, in order

vars == << pc, argv, i, sessions, exit_stack, initialized,
           available_tools, query, contents_history, contents,
           function_declarations, response, answer, error, exit_status, log >>

\* the empty dictionary
EmptyDict == [n \in {} |-> 0]

\* a response object before any LLM call
NoResponse == [text |-> <<>>, function_calls |-> <<>>]

Init ==
    /\ pc = "main"
    /\ argv \in { <<Prog>> \o p : p \in UNION { [1..n -> Paths] : n \in 0..MaxServers } }
    /\ i = 0
    /\ sessions = <<>>
    /\ exit_stack = <<>>
    /\ initialized = {}
    /\ available_tools = EmptyDict
    /\ query = <<>>
    /\ contents_history = None
    /\ contents = <<>>
    /\ function_declarations = <<>>
    /\ response = NoResponse
    /\ answer = <<>>
    /\ error = "none"
    /\ exit_status = -1
    /\ log = <<>>

(* ------------------------ connect_to_server --------------------------- *)

DotPy == <<".", "p", "y">>

DotJs == <<".", "j", "s">>

\* ScriptCheck accepting every path that has a dot in it
ScriptCheck_AnyExtension(path) ==
    IF "." \in { path[k] : k \in 1..Len(path) } THEN "none" ELSE "ValueError"

\* the exception the script-type check raises for path, or "none"
ScriptCheck(path) ==
    LET is_python == EndsWith(path, DotPy)
        is_js == EndsWith(path, DotJs)
    IN  IF ~(is_python \/ is_js) THEN "ValueError" ELSE "none"

\* the interpreter the server script is started with
Command(path) == IF EndsWith(path, DotPy) THEN "python" ELSE "node"

\* the script path behind session s (session s is the one opened for sys.argv[s])
PathOf(s) == argv[s + 1]

\* session.list_tools(): the tools of the server behind session s
ListTools(s) == ServerTools(PathOf(s))

\* StoreTool keeping the entry a name already has
StoreTool_KeepFirst(dict, name, session) ==
    [n \in DOMAIN dict \cup {name} |-> IF n \in DOMAIN dict THEN dict[n] ELSE session]

\* available_tools[name] = session
StoreTool(dict, name, session) ==
    [n \in DOMAIN dict \cup {name} |-> IF n = name THEN session ELSE dict[n]]

RECURSIVE StoreTools(_, _, _)
\* for tool in tools: available_tools[tool.name] = session
StoreTools(dict, tools, session) ==
    IF tools = <<>> THEN dict
    ELSE StoreTools(StoreTool(dict, Head(tools).name, session), Tail(tools), session)

RECURSIVE BuildCatalog(_, _)
\* for session in self.sessions: store the tools of session
BuildCatalog(dict, sess) ==
    IF sess = <<>> THEN dict
    ELSE BuildCatalog(StoreTools(dict, ListTools(Head(sess)), Head(sess)), Tail(sess))

\* the list_tools requests of one pass over the sessions
ListRequests(sess) == [k \in 1..Len(sess) |-> [op |-> "list_tools", session |-> sess[k]]]

\* Raise ending the program at once, as without the finally clause
Raise_NoFinally(e) ==
    /\ pc' = "exited"
    /\ error' = e

\* an exception leaves connect_to_server or chat_loop: main's finally runs next
Raise(e) ==
    /\ pc' = "cleanup"
    /\ error' = e

\* TooFewArguments counting sys.argv[0] as a server path
TooFewArguments_OffByOne == Len(argv) < 1

\* len(sys.argv) < 2
TooFewArguments == Len(argv) < 2

\* main: no server path given
Main_Usage ==
    /\ pc = "main"
    /\ TooFewArguments
    /\ log' = Append(log, [op |-> "usage"])
    /\ exit_status' = 1
    /\ pc' = "exited"
    /\ UNCHANGED << argv, i, sessions, exit_stack, initialized, available_tools,
                    query, contents_history, contents, function_declarations,
                    response, answer, error >>

\* main: client = MCPClient(), then the connect loop starts at sys.argv[1]
Main_Construct ==
    /\ pc = "main"
    /\ ~TooFewArguments
    /\ sessions' = <<>>
    /\ exit_stack' = <<>>
    /\ i' = 1
    /\ pc' = "connect"
    /\ UNCHANGED << argv, initialized, available_tools, query, contents_history,
                    contents, function_declarations, response, answer, error,
                    exit_status, log >>

\* connect_to_server: the script-type check and the server parameters
Connect_Script ==
    /\ pc = "connect"
    /\ i <= Len(argv) - 1
    /\ IF ScriptCheck(argv[i + 1]) # "none"
       THEN Raise(ScriptCheck(argv[i + 1]))
       ELSE pc' = "conn_stdio" /\ UNCHANGED error
    /\ UNCHANGED << argv, i, sessions, exit_stack, initialized, available_tools,
                    query, contents_history, contents, function_declarations,
                    response, answer, exit_status, log >>

\* connect_to_server: enter stdio_client, which starts the server process
Connect_Stdio ==
    /\ pc = "conn_stdio"
    /\ \E started \in BOOLEAN :
        IF started
        THEN /\ log' = Append(log, [op |-> "spawn", server |-> i,
                                    command |-> Command(argv[i + 1]),
                                    args |-> <<argv[i + 1]>>])
             /\ exit_stack' = Append(exit_stack, [kind |-> "stdio", id |-> i])
             /\ pc' = "conn_session"
             /\ UNCHANGED error
        ELSE /\ Raise("OSError")
             /\ UNCHANGED << log, exit_stack >>
    /\ UNCHANGED << argv, i, sessions, initialized, available_tools, query,
                    contents_history, contents, function_declarations, response,
                    answer, exit_status >>

\* connect_to_server: enter ClientSession and append it to self.sessions
Connect_Session ==
    /\ pc = "conn_session"
    /\ exit_stack' = Append(exit_stack, [kind |-> "session", id |-> i])
    /\ sessions' = Append(sessions, i)
    /\ pc' = "conn_init"
    /\ UNCHANGED << argv, i, initialized, available_tools, query, contents_history,
                    contents, function_declarations, response, answer, error,
                    exit_status, log >>

\* Connect_Initialize going on to list the tools when initialize() raises
Connect_Initialize_Swallow ==
    /\ pc = "conn_init"
    /\ log' = Append(log, [op |-> "initialize", session |-> sessions[Len(sessions)]])
    /\ \E ok \in BOOLEAN :
        initialized' = IF ok THEN initialized \cup {sessions[Len(sessions)]}
                       ELSE initialized
    /\ pc' = "conn_list"
    /\ UNCHANGED << argv, i, sessions, exit_stack, available_tools, query,
                    contents_history, contents, function_declarations, response,
                    answer, error, exit_status >>

\* connect_to_server: self.sessions[-1].initialize()
Connect_Initialize ==
    /\ pc = "conn_init"
    /\ log' = Append(log, [op |-> "initialize", session |-> sessions[Len(sessions)]])
    /\ \E ok \in BOOLEAN :
        IF ok
        THEN /\ initialized' = initialized \cup {sessions[Len(sessions)]}
             /\ pc' = "conn_list"
             /\ UNCHANGED error
        ELSE /\ Raise("McpError")
             /\ UNCHANGED initialized
    /\ UNCHANGED << argv, i, sessions, exit_stack, available_tools, query,
                    contents_history, contents, function_declarations, response,
                    answer, exit_status >>

\* connect_to_server: list the new server's tools, then rebuild the dictionary;
\* main's loop moves on to the next path
Connect_ListTools ==
    /\ pc = "conn_list"
    /\ log' = log \o <<[op |-> "list_tools", session |-> sessions[Len(sessions)]]>>
                  \o ListRequests(sessions)
    /\ available_tools' = BuildCatalog(EmptyDict, sessions)
    /\ i' = i + 1
    /\ pc' = "connect"
    /\ UNCHANGED << argv, sessions, exit_stack, initialized, query, contents_history,
                    contents, function_declarations, response, answer, error,
                    exit_status >>

(* ---------------------------- process_query --------------------------- *)

\* types.Content(role="user", parts=[types.Part(text=text)])
UserText(text) == [role |-> "user", text |-> text]

\* types.Content(role="model", parts=[types.Part(text=text)])
ModelText(text) == [role |-> "model", text |-> text]

\* types.Content(role="model", parts=[types.Part(function_call=tool_call)])
ModelCall(tool_call) == [role |-> "model", function_call |-> tool_call]

\* types.Content(role="user", parts=[Part.from_function_response(name, {"result": result})])
UserResult(name, result) ==
    [role |-> "user", function_response |-> [name |-> name, result |-> result]]

\* StartContents putting the new user turn in front of the history
StartContents_Prepend(q, history) ==
    IF Truthy(history)
    THEN <<[role |-> "user", text |-> q]>> \o history.items
    ELSE <<[role |-> "user", text |-> q]>>

\* StartContents starting a new conversation whatever the history
StartContents_DropHistory(q, history) == <<[role |-> "user", text |-> q]>>

\* contents after the user turn of query is added to the conversation so far
StartContents(q, history) ==
    IF Truthy(history)
    THEN Append(history.items, UserText(q))
    ELSE <<UserText(q)>>

\* contents is the very list contents_history names when the history was truthy,
\* so appending to contents shows through contents_history as well
SyncHistory(history, new_contents) ==
    IF Truthy(history) THEN List(new_contents) ELSE history

\* utils.format_available_tools
FormatAvailableTools(tools) ==
    [k \in 1..Len(tools) |->
        [name |-> tools[k].name,
         description |-> tools[k].description,
         parameters |-> tools[k].inputSchema]]

RECURSIVE Chain(_)
\* list(itertools.chain.from_iterable(lists))
Chain(lists) ==
    IF lists = <<>> THEN <<>> ELSE Head(lists) \o Chain(Tail(lists))

\* the function declarations of a turn: tools is what the loop over the sessions
\* left in it, the answer of the last session, and is formatted once, after the loop
FetchedTools(sess) ==
    LET tools == ListTools(sess[Len(sess)])
        available == Append(<<>>, FormatAvailableTools(tools))
    IN  Chain(available)

\* self.sessions.call_tool(tool_name, tool_args): self.sessions is a list
CallTool(sess, tool_name, tool_args) ==
    [error |-> "AttributeError", requests |-> <<>>, result |-> "none"]

RECURSIVE RunToolCalls_SkipFailed(_, _, _, _)
\* RunToolCalls going on to the next function call when a call raises
RunToolCalls_SkipFailed(sess, calls, conts, requests) ==
    IF calls = <<>>
    THEN [error |-> "none", contents |-> conts, requests |-> requests]
    ELSE LET tool_call == Head(calls)
             r == CallTool(sess, tool_call.name, tool_call.args)
         IN  IF r.error # "none"
             THEN RunToolCalls_SkipFailed(sess, Tail(calls), conts,
                      requests \o r.requests)
             ELSE RunToolCalls_SkipFailed(sess, Tail(calls),
                      conts \o << ModelCall(tool_call),
                                  UserResult(tool_call.name, r.result) >>,
                      requests \o r.requests)

RECURSIVE RunToolCalls(_, _, _, _)
\* for tool_call in response.function_calls: call the tool, then append the model's
\* function call and the function response; stops at the first exception
RunToolCalls(sess, calls, conts, requests) ==
    IF calls = <<>>
    THEN [error |-> "none", contents |-> conts, requests |-> requests]
    ELSE LET tool_call == Head(calls)
             r == CallTool(sess, tool_call.name, tool_call.args)
         IN  IF r.error # "none"
             THEN [error |-> r.error, contents |-> conts,
                   requests |-> requests \o r.requests]
             ELSE RunToolCalls(sess, Tail(calls),
                      conts \o << ModelCall(tool_call),
                                  UserResult(tool_call.name, r.result) >>,
                      requests \o r.requests)

\* a generate_content request
Generate(model, conts, decls) ==
    [op |-> "generate_content", model |-> model, contents |-> conts, tools |-> decls]

\* the lines read from stdin so far
NumInputs == Cardinality(Positions(log, LAMBDA r : r.op = "input"))

\* chat_loop is entered once every path is connected
ChatLoop_Start ==
    /\ pc = "connect"
    /\ i > Len(argv) - 1
    /\ contents_history' = None
    /\ pc' = "loop"
    /\ UNCHANGED << argv, i, sessions, exit_stack, initialized, available_tools,
                    query, contents, function_declarations, response, answer,
                    error, exit_status, log >>

\* LoopCommand comparing without lower()
LoopCommand_CaseSensitive(q) ==
    IF q = <<"q", "u", "i", "t">> THEN "quit"
    ELSE IF q = <<"n", "e", "w">> THEN "new"
    ELSE "query"

\* which branch of chat_loop the stripped line q takes
LoopCommand(q) ==
    IF Lower(q) = <<"q", "u", "i", "t">> THEN "quit"
    ELSE IF Lower(q) = <<"n", "e", "w">> THEN "new"
    ELSE "query"

\* ResetHistory leaving the history as it is
ResetHistory_Keep == contents_history

\* contents_history = None, the value of the history after the new command
ResetHistory == None

\* chat_loop: read a line and tell quit, new and a query apart
ChatLoop_Input ==
    /\ pc = "loop"
    /\ NumInputs < MaxInputs
    /\ \E raw \in Inputs :
        /\ query' = Strip(raw)
        /\ log' = Append(log, [op |-> "input", text |-> raw])
        /\ IF LoopCommand(query') = "quit"
           THEN pc' = "cleanup" /\ UNCHANGED contents_history
           ELSE IF LoopCommand(query') = "new"
           THEN pc' = "loop" /\ contents_history' = ResetHistory
           ELSE pc' = "pq_begin" /\ UNCHANGED contents_history
    /\ UNCHANGED << argv, i, sessions, exit_stack, initialized, available_tools,
                    contents, function_declarations, response, answer, error,
                    exit_status >>

\* process_query: the user turn joins the conversation
PQ_Begin ==
    /\ pc = "pq_begin"
    /\ contents' = StartContents(query, contents_history)
    /\ contents_history' = SyncHistory(contents_history, contents')
    /\ pc' = "pq_tools"
    /\ UNCHANGED << argv, i, sessions, exit_stack, initialized, available_tools,
                    query, function_declarations, response, answer, error,
                    exit_status, log >>

\* process_query: ask every session for its tools and build the declarations
PQ_ListTools ==
    /\ pc = "pq_tools"
    /\ log' = log \o ListRequests(sessions)
    /\ IF sessions = <<>>
       THEN Raise("UnboundLocalError") /\ UNCHANGED function_declarations
       ELSE /\ function_declarations' = FetchedTools(sessions)
            /\ pc' = "pq_llm"
            /\ UNCHANGED error
    /\ UNCHANGED << argv, i, sessions, exit_stack, initialized, available_tools,
                    query, contents_history, contents, response, answer,
                    exit_status >>

\* process_query: the initial LLM call
PQ_FirstLLM ==
    /\ pc = "pq_llm"
    /\ log' = Append(log, Generate("gemini-2.0-flash-001", contents,
                                   function_declarations))
    /\ \/ Raise("APIError") /\ UNCHANGED response
       \/ /\ \E text \in LLMTexts :
                response' = [text |-> text, function_calls |-> <<>>]
          /\ pc' = "pq_branch"
          /\ UNCHANGED error
       \/ /\ \E calls \in FunctionCallLists :
                response' = [text |-> <<>>, function_calls |-> calls]
          /\ pc' = "pq_branch"
          /\ UNCHANGED error
    /\ UNCHANGED << argv, i, sessions, exit_stack, initialized, available_tools,
                    query, contents_history, contents, function_declarations,
                    answer, exit_status >>

\* PQ_Text appending the model turn only when the text is not empty
PQ_Text_SkipEmpty ==
    /\ pc = "pq_branch"
    /\ response.function_calls = <<>>
    /\ contents' = IF response.text = <<>> THEN contents
                   ELSE Append(contents, [role |-> "model", text |-> response.text])
    /\ contents_history' = List(contents')
    /\ answer' = response.text
    /\ log' = Append(log, [op |-> "print", text |-> response.text])
    /\ pc' = "loop"
    /\ UNCHANGED << argv, i, sessions, exit_stack, initialized, available_tools,
                    query, function_declarations, response, error, exit_status >>

\* process_query: no function call; the text is the answer, and chat_loop keeps
\* the returned contents as its history and prints the answer
PQ_Text ==
    /\ pc = "pq_branch"
    /\ response.function_calls = <<>>
    /\ contents' = Append(contents, ModelText(response.text))
    /\ contents_history' = List(contents')
    /\ answer' = response.text
    /\ log' = Append(log, [op |-> "print", text |-> response.text])
    /\ pc' = "loop"
    /\ UNCHANGED << argv, i, sessions, exit_stack, initialized, available_tools,
                    query, function_declarations, response, error, exit_status >>

\* process_query: the function calls, then the final LLM call
PQ_FunctionCalls ==
    /\ pc = "pq_branch"
    /\ response.function_calls # <<>>
    /\ LET r == RunToolCalls(sessions, response.function_calls, contents, <<>>)
           final == Generate("gemini-2.0-flash", r.contents, function_declarations)
       IN  IF r.error # "none"
           THEN /\ Raise(r.error)
                /\ contents' = r.contents
                /\ contents_history' = SyncHistory(contents_history, contents')
                /\ log' = log \o r.requests
                /\ UNCHANGED answer
           ELSE \/ /\ Raise("APIError")
                   /\ contents' = r.contents
                   /\ contents_history' = SyncHistory(contents_history, contents')
                   /\ log' = (log \o r.requests) \o <<final>>
                   /\ UNCHANGED answer
                \/ \E text \in LLMTexts :
                   /\ contents' = Append(r.contents, ModelText(text))
                   /\ contents_history' = List(contents')
                   /\ answer' = text
                   /\ log' = (log \o r.requests)
                                \o << final, [op |-> "print", text |-> text] >>
                   /\ pc' = "loop"
                   /\ UNCHANGED error
    /\ UNCHANGED << argv, i, sessions, exit_stack, initialized, available_tools,
                    query, function_declarations, response, exit_status >>

(* ------------------------------- cleanup ------------------------------ *)

RECURSIVE AClose_StopAtFailure(_, _)
\* AClose giving up at the first exit that raises
AClose_StopAtFailure(stack, failing) ==
    IF stack = <<>> THEN <<>>
    ELSE LET e == stack[Len(stack)]
             ok == ~(e.kind = "session" /\ e.id \in failing)
         IN  << [op |-> "aexit", kind |-> e.kind, id |-> e.id, ok |-> ok] >>
             \o (IF ok
                 THEN AClose_StopAtFailure(SubSeq(stack, 1, Len(stack) - 1), failing)
                 ELSE <<>>)

RECURSIVE AClose(_, _)
\* AsyncExitStack.aclose(): the exits run last-entered first, and an exit that
\* raises does not keep the remaining ones from running
AClose(stack, failing) ==
    IF stack = <<>> THEN <<>>
    ELSE LET e == stack[Len(stack)]
         IN  << [op |-> "aexit", kind |-> e.kind, id |-> e.id,
                 ok |-> ~(e.kind = "session" /\ e.id \in failing)] >>
             \o AClose(SubSeq(stack, 1, Len(stack) - 1), failing)

\* main's finally: client.cleanup(); the sessions in failing raise on exit
Cleanup ==
    /\ pc = "cleanup"
    /\ \E failing \in SUBSET Range(sessions) :
        /\ log' = log \o AClose(exit_stack, failing)
        /\ error' = IF failing # {} THEN "CloseError" ELSE error
    /\ exit_stack' = <<>>
    /\ exit_status' = IF error' = "none" THEN 0 ELSE 1
    /\ pc' = "exited"
    /\ UNCHANGED << argv, i, sessions, initialized, available_tools, query,
                    contents_history, contents, function_declarations, response,
                    answer >>

(* ---------------------------- specification --------------------------- *)

Next ==
    \/ Main_Usage
    \/ Main_Construct
    \/ Connect_Script
    \/ Connect_Stdio
    \/ Connect_Session
    \/ Connect_Initialize
    \/ Connect_ListTools
    \/ ChatLoop_Start
    \/ ChatLoop_Input
    \/ PQ_Begin
    \/ PQ_ListTools
    \/ PQ_FirstLLM
    \/ PQ_Text
    \/ PQ_FunctionCalls
    \/ Cleanup

Spec == Init /\ [][Next]_vars

(* ------------------------------- claims ------------------------------- *)

\* the tool names session s advertises
Names(s) == { t.name : t \in Range(ListTools(s)) }

\* the positions of sess whose session advertises name
Offering(sess, name) == { k \in 1..Len(sess) : name \in Names(sess[k]) }

\* the largest element of a nonempty set of integers
Max(S) == CHOOSE m \in S : \A n \in S : n <= m

\* the records appended to the log by the step
Added == SubSeq(log', Len(log) + 1, Len(log'))

\* C1: once a connect has completed, the name -> session dictionary names exactly
\* the tools some connected session advertises, and maps each name to the most
\* recently connected session advertising it
C1_LastRegisteredWins ==
    (i >= 1 /\ Len(sessions) = i - 1) =>
        /\ DOMAIN available_tools = UNION { Names(s) : s \in Range(sessions) }
        /\ \A n \in DOMAIN available_tools :
              available_tools[n] = sessions[Max(Offering(sessions, n))]

\* two connected servers both advertise search, and it routes to the second
C1_Witness ==
    /\ Len(sessions) = 2
    /\ i = 3
    /\ "search" \in Names(sessions[1]) \cap Names(sessions[2])
    /\ available_tools["search"] = sessions[2]

\* C2: the function declarations of every LLM call name every tool advertised by
\* every open session
C2_EveryToolDeclared ==
    \A k \in 1..Len(log) :
        log[k].op = "generate_content" =>
            \A s \in Range(sessions) : \A n \in Names(s) :
                \E d \in Range(log[k].tools) : d.name = n

\* the merged catalog of the open sessions
CurrentCatalog == BuildCatalog(EmptyDict, sessions)

\* C3: every requested function call whose name is in the merged catalog is
\* forwarded, with its name and arguments, to the session the catalog maps the
\* name to and to no other session
C3_DispatchToOwner ==
    [][ (pc = "pq_branch" /\ response.function_calls # <<>>) =>
          \A j \in 1..Len(response.function_calls) :
              LET call == response.function_calls[j]
              IN  call.name \in DOMAIN CurrentCatalog =>
                    /\ \E r \in Range(Added) :
                          /\ r.op = "call_tool"
                          /\ r.session = CurrentCatalog[call.name]
                          /\ r.name = call.name
                          /\ r.args = call.args
                    /\ \A r \in Range(Added) :
                          (r.op = "call_tool" /\ r.name = call.name) =>
                              r.session = CurrentCatalog[call.name] ]_vars

\* C4: a first requested function call whose name is absent from the merged
\* catalog ends the turn with UnknownToolError, reaches no tool server and adds no
\* function-result turn
C4_UnknownToolError ==
    [][ ( /\ pc = "pq_branch"
          /\ response.function_calls # <<>>
          /\ response.function_calls[1].name \notin DOMAIN CurrentCatalog ) =>
          /\ error' = "UnknownToolError"
          /\ \A r \in Range(Added) : r.op # "call_tool"
          /\ contents' = contents ]_vars

\* the model and user turns the function calls add to the conversation
CallTurns(calls, results) ==
    [k \in 1..(2 * Len(calls)) |->
        IF k % 2 = 1
        THEN ModelCall(calls[(k + 1) \div 2])
        ELSE UserResult(calls[k \div 2].name, results[k \div 2])]

\* C5: k >= 1 requested function calls are dispatched in order, each adding a
\* model function-call turn and a user function-result turn; then one further
\* LLM call is made over the extended conversation and its text is appended as
\* a model turn and returned
C5_CallsThenFinalAnswer ==
    [][ (pc = "pq_branch" /\ response.function_calls # <<>>) =>
          LET calls == response.function_calls
              k == Len(calls)
              sent == SelectSeq(Added, LAMBDA r : r.op = "call_tool")
              asked == SelectSeq(Added, LAMBDA r : r.op = "generate_content")
          IN  /\ pc' = "loop"
              /\ Len(contents') = Len(contents) + 2 * k + 1
              /\ [j \in 1..Len(sent) |-> [name |-> sent[j].name, args |-> sent[j].args]]
                    = calls
              /\ \E results \in [1..k -> {"none", "5"}] :
                    SubSeq(contents', 1, Len(contents') - 1)
                        = contents \o CallTurns(calls, results)
              /\ Len(asked) = 1
              /\ asked[1].contents = SubSeq(contents', 1, Len(contents') - 1)
              /\ contents'[Len(contents')] = ModelText(answer') ]_vars

QuitWord == <<"q", "u", "i", "t">>

NewWord == <<"n", "e", "w">>

\* the log record is a line read from stdin
IsInput(r) == r.op = "input"

\* the log record is the new command
IsReset(r) == r.op = "input" /\ Lower(Strip(r.text)) = NewWord

\* the log record is an LLM call
IsGenerate(r) == r.op = "generate_content"

\* the position of the last new command, 0 if there was none
LastReset ==
    LET P == Positions(log, IsReset) IN IF P = {} THEN 0 ELSE Max(P)

\* the log since the last new command
SinceReset == SubSeq(log, LastReset + 1, Len(log))

\* the answers printed since the last new command, one per successful turn
Answers == SelectSeq(SinceReset, LAMBDA r : r.op = "print")

\* the queries read since the last new command
Queries == SelectSeq(SinceReset, IsInput)

\* the position in h of its k-th turn of role user
UserTurnAt(h, k) ==
    LET U == { p \in 1..Len(h) : h[p].role = "user" }
    IN  CHOOSE p \in U : Cardinality({ q \in U : q <= p }) = k

\* C6: between turns, after N successful turns since the last new command (or
\* since the start), the history is absent when N = 0 and otherwise holds
\* exactly N user turns, the queries in the order typed, each followed by at
\* least one model turn, the last of them the answer of that turn
C6_HistoryShape ==
    pc = "loop" =>
        LET N == Len(Answers)
        IN  IF N = 0
            THEN contents_history = None
            ELSE /\ contents_history.tag = "list"
                 /\ LET h == contents_history.items
                        users == SelectSeq(h, LAMBDA t : t.role = "user")
                        models == SelectSeq(h, LAMBDA t : t.role = "model")
                    IN  /\ Len(users) = N
                        /\ Len(models) >= N
                        /\ Len(Queries) = N
                        /\ users = [k \in 1..N |-> UserText(Strip(Queries[k].text))]
                        /\ \A k \in 1..N :
                              LET from == UserTurnAt(h, k)
                                  to == IF k = N THEN Len(h) + 1
                                        ELSE UserTurnAt(h, k + 1)
                              IN  /\ to - from >= 2
                                  /\ h[to - 1] = ModelText(Answers[k].text)

\* two successful turns after a new command
C6_Witness ==
    /\ pc = "loop"
    /\ LastReset > 0
    /\ Len(Answers) = 2
    /\ Len(contents_history.items) = 4

\* the last position below c holding a line read from stdin, 0 if none
InputBefore(c) ==
    LET P == { b \in 1..(c - 1) : IsInput(log[b]) }
    IN  IF P = {} THEN 0 ELSE Max(P)

\* the LLM call at c is the first of the turn of the line read at b
FirstCallOfTurn(b, c) ==
    /\ b > 0
    /\ IsGenerate(log[c])
    /\ \A d \in (b + 1)..(c - 1) : ~IsGenerate(log[d])

\* C7: the first LLM call of the turn that follows a new command receives a
\* conversation made of the user turn of that query alone
C7_FreshAfterNew ==
    \A c \in 1..Len(log) :
        LET b == InputBefore(c)
            a == InputBefore(b)
        IN  (FirstCallOfTurn(b, c) /\ a > 0 /\ IsReset(log[a])) =>
                log[c].contents = <<UserText(Strip(log[b].text))>>

\* a turn, then new, then a query whose first LLM call has been made
C7_Witness ==
    \E c \in 1..Len(log) :
        LET b == InputBefore(c)
            a == InputBefore(b)
        IN  /\ FirstCallOfTurn(b, c)
            /\ a > 0
            /\ IsReset(log[a])
            /\ \E d \in 1..(a - 1) : log[d].op = "print"

\* kind and id of the entries of an exit stack or of the exits in a log
Entries(s) == [k \in 1..Len(s) |-> [kind |-> s[k].kind, id |-> s[k].id]]

\* C8: cleanup attempts the exit of every entry of the exit stack, last acquired
\* first, whichever of them fail; the sessions are exited in the reverse of the
\* order they were connected in
C8_ReverseTeardown ==
    [][ pc = "cleanup" =>
          /\ \A r \in Range(Added) : r.op = "aexit"
          /\ Entries(Added) = Reverse(Entries(exit_stack))
          /\ LET closed == SelectSeq(Added, LAMBDA r : r.kind = "session")
             IN  [k \in 1..Len(closed) |-> closed[k].id] = Reverse(sessions) ]_vars

\* the exit of the second session failed and the first session was exited after it
C8_Witness ==
    /\ pc = "exited"
    /\ Len(sessions) = 2
    /\ \E a, b \in 1..Len(log) :
        /\ a < b
        /\ log[a].op = "aexit" /\ log[a].kind = "session"
        /\ log[a].id = sessions[2] /\ ~log[a].ok
        /\ log[b].op = "aexit" /\ log[b].kind = "session"
        /\ log[b].id = sessions[1]

\* the positions at which chat_loop or process_query is running
InLoop == pc \in {"loop", "pq_begin", "pq_tools", "pq_llm", "pq_branch"}

\* C9: a line that is quit once stripped and lowercased ends the loop without an
\* LLM call, and nothing else ends it normally; a line that is new drops the
\* history and goes on to the next line without an LLM call; any other line is
\* submitted, stripped, as a query, and the conversation the query returns is the
\* history of the next turn
C9_ThreeCommands ==
    [][ /\ pc = "loop" =>
            LET raw == log'[Len(log')].text
                word == Lower(Strip(raw))
            IN  /\ Added = <<[op |-> "input", text |-> raw]>>
                /\ word = QuitWord =>
                      /\ pc' = "cleanup" /\ error' = "none"
                      /\ contents_history' = contents_history
                /\ word = NewWord =>
                      /\ pc' = "loop" /\ contents_history' = None
                /\ word \notin {QuitWord, NewWord} =>
                      /\ pc' = "pq_begin" /\ query' = Strip(raw)
                      /\ contents_history' = contents_history
        /\ (InLoop /\ pc' = "cleanup" /\ error' = "none") =>
              /\ pc = "loop"
              /\ Lower(Strip(log'[Len(log')].text)) = QuitWord
        /\ (pc # "loop" /\ pc' = "loop" /\ InLoop) =>
              /\ contents_history' = List(contents')
              /\ contents' # <<>> ]_vars

\* a query was answered, then new was typed, then quit ended the loop
C9_Witness ==
    /\ pc = "cleanup"
    /\ error = "none"
    /\ \E a, b \in 1..Len(log) : a < b /\ log[a].op = "print" /\ IsReset(log[b])
    /\ Lower(Strip(log[Len(log)].text)) = QuitWord

\* the path connect_to_server is about to check is neither a .py nor a .js path
Unrecognized ==
    /\ pc = "connect"
    /\ i <= Len(argv) - 1
    /\ ~EndsWith(argv[i + 1], DotPy)
    /\ ~EndsWith(argv[i + 1], DotJs)

C11_TextOnly ==
    [][ (pc = "pq_branch" /\ response.function_calls = <<>>) =>
          /\ contents' = contents \o <<[role |-> "model", text |-> response.text]>>
          /\ answer' = response.text
          /\ contents_history' = List(contents')
          /\ Added = <<[op |-> "print", text |-> response.text]>>
          /\ pc' = "loop"
          /\ error' = "none" ]_vars

\* a turn was answered with the empty text, which is the last turn of the history
C11_Witness ==
    /\ pc = "loop"
    /\ log # <<>>
    /\ log[Len(log)] = [op |-> "print", text |-> <<>>]
    /\ answer = <<>>
    /\ contents_history.tag = "list"
    /\ contents_history.items[Len(contents_history.items)]
          = [role |-> "model", text |-> <<>>]

\* the turns of a history object, none for None
TurnsOf(history) == IF history.tag = "list" THEN history.items ELSE <<>>

\* C12: process_query puts the user turn of the query after the turns of the
\* history it is given (alone, when the history is absent or empty), sends that
\* conversation to the LLM unchanged, and returns a conversation of which it is
\* a prefix
C12_AppendOnly ==
    [][ /\ pc = "pq_begin" =>
              contents' = TurnsOf(contents_history)
                              \o <<[role |-> "user", text |-> query]>>
        /\ pc = "pq_tools" => contents' = contents
        /\ pc = "pq_llm" =>
              /\ contents' = contents
              /\ Len(Added) = 1
              /\ Added[1].op = "generate_content"
              /\ Added[1].contents = contents
        /\ pc = "pq_branch" =>
              /\ Len(contents') >= Len(contents)
              /\ SubSeq(contents', 1, Len(contents)) = contents
              /\ pc' = "loop" => contents_history' = List(contents') ]_vars

\* the second query of a conversation went to the LLM behind the first turn
C12_Witness ==
    /\ pc = "pq_branch"
    /\ Len(contents) = 3
    /\ contents[3] = [role |-> "user", text |-> query]
    /\ log[Len(log)].op = "generate_content"
    /\ log[Len(log)].contents = contents
    /\ \E c \in 1..(Len(log) - 1) :
          /\ log[c].op = "generate_content"
          /\ log[c].contents = SubSeq(contents, 1, 1)

\* the positions of calls whose dispatch raises
FailingCalls(calls) ==
    { j \in 1..Len(calls) :
        CallTool(sessions, calls[j].name, calls[j].args).error # "none" }

\* the least element of a nonempty set of integers
Min(S) == CHOOSE m \in S : \A n \in S : m <= n

\* C13: when the dispatch of the j-th function call of a batch raises, the turn
\* ends there with that exception: only the turns of the j - 1 calls before it
\* were added, no later call is dispatched and the failed one is not repeated,
\* no final LLM call is made and no answer is returned or printed; once an
\* exception is under way nothing but the teardown talks to a collaborator
C13_FailureAbortsTurn ==
    [][ /\ ( /\ pc = "pq_branch"
             /\ response.function_calls # <<>>
             /\ FailingCalls(response.function_calls) # {} ) =>
              LET calls == response.function_calls
                  j == Min(FailingCalls(calls))
                  sent == SelectSeq(Added, LAMBDA r : r.op = "call_tool")
              IN  /\ pc' = "cleanup"
                  /\ error' = CallTool(sessions, calls[j].name, calls[j].args).error
                  /\ Len(sent) <= j
                  /\ \A r \in Range(Added) : r.op = "call_tool"
                  /\ Len(contents') = Len(contents) + 2 * (j - 1)
                  /\ SubSeq(contents', 1, Len(contents)) = contents
                  /\ answer' = answer
        /\ error # "none" => \A r \in Range(Added) : r.op = "aexit" ]_vars

\* the first call of a batch of two raised: the turn ended after its only LLM call
C13_Witness ==
    /\ pc = "cleanup"
    /\ error = "AttributeError"
    /\ Len(response.function_calls) = 2
    /\ log[Len(log)].op = "generate_content"
    /\ log[Len(log)].contents = contents
    /\ contents[Len(contents)] = [role |-> "user", text |-> query]

\* the interactive loop has been entered
LoopEntered == InLoop \/ \E k \in 1..Len(log) : IsInput(log[k])

\* C14: without a server path the program prints the usage message and exits
\* with status 1, having connected to nothing and read no input; with server
\* paths it prints no usage message, and by the time the interactive loop is
\* entered it has started and initialized one server per path, in the order of
\* the arguments, and starts none afterwards
C14_UsageOrConnectAll ==
    /\ (Len(argv) < 2 /\ pc # "main") =>
          /\ pc = "exited"
          /\ exit_status = 1
          /\ log = <<[op |-> "usage"]>>
          /\ sessions = <<>>
          /\ exit_stack = <<>>
          /\ error = "none"
    /\ Len(argv) >= 2 => \A k \in 1..Len(log) : log[k].op # "usage"
    /\ LoopEntered =>
          LET n == Len(argv) - 1
              spawns == SelectSeq(log, LAMBDA r : r.op = "spawn")
              inputs == Positions(log, IsInput)
          IN  /\ n >= 1
              /\ spawns = [k \in 1..n |->
                              [op |-> "spawn", server |-> k,
                               command |-> IF EndsWith(argv[k + 1], DotPy)
                                           THEN "python" ELSE "node",
                               args |-> <<argv[k + 1]>>]]
              /\ sessions = [k \in 1..n |-> k]
              /\ initialized = 1..n
              /\ \A k \in 1..Len(log) :
                    log[k].op \in {"spawn", "initialize"} =>
                        \A b \in inputs : k < b

\* the program was started without a server path and has exited with status 1
C14_Witness ==
    /\ argv = <<Prog>>
    /\ pc = "exited"
    /\ exit_status = 1
    /\ log = <<[op |-> "usage"]>>

\* the positions at which connect_to_server or main's connect loop is running
Connecting == pc \in {"connect", "conn_stdio", "conn_session", "conn_init", "conn_list"}

C16_InitializedBeforeUse ==
    /\ \A k \in 1..Len(log) :
          log[k].op \in {"list_tools", "call_tool"} =>
              /\ log[k].session \in initialized
              /\ \E j \in 1..(k - 1) :
                    log[j] = [op |-> "initialize", session |-> log[k].session]
    /\ initialized \subseteq Range(sessions)
    /\ \A s \in Range(sessions) \ initialized :
          \/ pc = "conn_init"
          \/ /\ pc \in {"cleanup", "exited"}
             /\ error # "none"
             /\ \A k \in 1..Len(log) : ~IsInput(log[k])

\* the second server's initialize() raised after the first server's tools were
\* listed; the second session is in the registry and was never asked anything
C16_Witness ==
    /\ pc = "cleanup"
    /\ error = "McpError"
    /\ sessions = <<1, 2>>
    /\ initialized = {1}
    /\ log[Len(log)] = [op |-> "initialize", session |-> 2]
    /\ \E k \in 1..Len(log) : log[k] = [op |-> "list_tools", session |-> 1]

====
